---- MODULE Spec2Model ----
(***************************************************************************)
(* Subscriptions service: the SubscriptionsRepository (CreateSub, GetSub,  *)
(* UpdateSub, DeleteSub, GetSubsList, GetTotalCost) over the subscriptions *)
(* table, and the HTTP handlers that call it.                              *)
(*                                                                         *)
(* Text that the code parses (dates) is a sequence of one-character        *)
(* strings, so that time.Parse / Time.Format are computed character by     *)
(* character.  An optional value (a Go pointer, a nullable column) is a    *)
(* sequence of length 0 (nil / NULL) or 1.                                 *)
(***************************************************************************)
EXTENDS Integers, Sequences, FiniteSets, TLC

VARIABLES
    subscriptions,  \* the table: id -> row, for the ids that hold a row
    seq,            \* the id sequence of the table: the last id handed out
    pc,             \* "idle", "pending" (a request is in), "done" (it was served)
    req,            \* the request being served, with its arguments
    last,           \* what the repository call returned: [op, err, out]
    resp            \* the HTTP response: [handler, status, body]

vars == <<subscriptions, seq, pc, req, last, resp>>

----------------------------------------------------------------------------
(* Bounds and input sets *)

\* rows ever inserted (ids handed out by the sequence)
MaxId == 2

Nil == <<>>
Some(v) == <<v>>
Opt(S) == {Nil} \cup {Some(v) : v \in S}

D_12_2023 == <<"1","2","-","2","0","2","3">>
D_01_2024 == <<"0","1","-","2","0","2","4">>
D_13_2024 == <<"1","3","-","2","0","2","4">>
EmptyText == <<>>

ValidDateTexts == {D_12_2023, D_01_2024}
DateTexts == ValidDateTexts \cup {EmptyText, D_13_2024}

Names == {"netflix", "spotify"}
Users == {"u1", "u2"}
CreatePrices == {-5, 0, 7}
Ids == 1..MaxId

\* the values that updates supply
UpdateNames == {"spotify"}
UpdateUsers == {"u2"}
UpdatePrices == {-5, 0}
UpdateDateTexts == {EmptyText, D_13_2024, D_01_2024}

----------------------------------------------------------------------------
(* time.Parse("01-2006", s) and Time.Format("01-2006") *)

DigitChars == <<"0","1","2","3","4","5","6","7","8","9">>

isDigit(c) == \E i \in 1..10 : DigitChars[i] = c

DigitVal(c) == (CHOOSE i \in 1..10 : DigitChars[i] = c) - 1

\* (mutant) the month is not checked against 1..12
MonthOk_NoRange(value) ==
    /\ Len(value) >= 2
    /\ isDigit(value[1])
    /\ isDigit(value[2])

\* layout element "01": exactly two digits, 1..12
MonthOk(value) ==
    /\ Len(value) >= 2
    /\ isDigit(value[1])
    /\ isDigit(value[2])
    /\ LET month == 10 * DigitVal(value[1]) + DigitVal(value[2])
       IN  ~(month <= 0 \/ 12 < month)

\* (mutant) the year's four digits may be followed by more text
YearOk_Prefix(value) ==
    /\ Len(value) >= 4
    /\ \A i \in 1..4 : isDigit(value[i])

\* layout element "2006": exactly four digits; nothing may follow it
YearOk(value) ==
    /\ Len(value) >= 4
    /\ \A i \in 1..4 : isDigit(value[i])
    /\ Len(value) = 4

\* time.Parse("01-2006", value): [ok, t] with t = [y, m] (day 1, 00:00 UTC)
ParseMonthYear(value) ==
    IF /\ MonthOk(value)
       /\ Len(value) >= 3
       /\ value[3] = "-"
       /\ YearOk(SubSeq(value, 4, Len(value)))
    THEN [ok |-> TRUE,
          t  |-> [y |-> 1000 * DigitVal(value[4]) + 100 * DigitVal(value[5])
                        + 10 * DigitVal(value[6]) + DigitVal(value[7]),
                  m |-> 10 * DigitVal(value[1]) + DigitVal(value[2])]]
    ELSE [ok |-> FALSE, t |-> [y |-> 0, m |-> 0]]

\* (mutant) the layout "1-2006": the month without its leading zero
FormatMonthYear_NoPad(t) ==
    (IF t.m < 10 THEN << DigitChars[t.m + 1] >>
     ELSE << DigitChars[(t.m \div 10) + 1], DigitChars[(t.m % 10) + 1] >>)
    \o << "-",
          DigitChars[((t.y \div 1000) % 10) + 1], DigitChars[((t.y \div 100) % 10) + 1],
          DigitChars[((t.y \div 10) % 10) + 1], DigitChars[(t.y % 10) + 1] >>

\* t.Format("01-2006")
FormatMonthYear(t) ==
    << DigitChars[(t.m \div 10) + 1], DigitChars[(t.m % 10) + 1], "-",
       DigitChars[((t.y \div 1000) % 10) + 1], DigitChars[((t.y \div 100) % 10) + 1],
       DigitChars[((t.y \div 10) % 10) + 1], DigitChars[(t.y % 10) + 1] >>

\* order of two dates of the table (first day of the month)
DateLE(a, b) == a.y * 12 + a.m <= b.y * 12 + b.m

----------------------------------------------------------------------------
(* Errors returned by the repository (the text that the handlers match on) *)

OK == "nil"
ErrPriceNegative == "price must be non-negative"
ErrInvalidStart == "invalid startDate format (expected MM-YYYY)"
ErrInvalidEnd == "invalid endDate format (expected MM-YYYY)"
ErrStartEmpty == "startDate cannot be empty"
ErrEndEmpty == "endDate cannot be empty"
ErrNoFields == "no fields to update"
ErrNotFound == "not found"

----------------------------------------------------------------------------
(* The subscriptions table *)

\* INSERT ... RETURNING id: the id comes from the table's sequence
NextVal(sq) == sq + 1

Row(serviceName, price, userId, start, endParam) ==
    [service_name |-> serviceName, price |-> price, user_id |-> userId,
     start_date |-> start, end_date |-> endParam]

\* INSERT INTO subscriptions (...) VALUES ($1..$5) RETURNING id
ExecInsert(tbl, sq, row) ==
    LET id == NextVal(sq)
    IN  [id  |-> id,
         tbl |-> [i \in (DOMAIN tbl) \cup {id} |-> IF i = id THEN row ELSE tbl[i]],
         seq |-> id]

\* one more "col = $idx" assignment (or WHERE condition) with its argument
AddPart(b, part, arg) ==
    [parts |-> Append(b.parts, part), args |-> Append(b.args, arg), idx |-> b.idx + 1]

EmptyBuild == [parts |-> <<>>, args |-> <<>>, idx |-> 1]

\* "col = $idx" of an UPDATE's SET list
SetPart(col, idx) == [col |-> col, arg |-> idx]

\* (mutant) SET of every column: a column that is not assigned takes its
\* zero value
SetCols_Overwrite(row, parts, args) ==
    LET zero == Row("", 0, "", [y |-> 1, m |-> 1], Nil)
    IN  [c \in DOMAIN row |->
            IF \E k \in 1..Len(parts) : parts[k].col = c
            THEN args[parts[CHOOSE k \in 1..Len(parts) : parts[k].col = c].arg]
            ELSE zero[c]]

\* the row after SET parts: an assigned column takes its argument
SetCols(row, parts, args) ==
    [c \in DOMAIN row |->
        IF \E k \in 1..Len(parts) : parts[k].col = c
        THEN args[parts[CHOOSE k \in 1..Len(parts) : parts[k].col = c].arg]
        ELSE row[c]]

\* (mutant) the UPDATE without its WHERE clause: every row is assigned
ExecUpdate_AllRows(tbl, parts, args, whereArg) ==
    [tbl  |-> [i \in DOMAIN tbl |-> SetCols(tbl[i], parts, args)],
     rowsAffected |-> Cardinality(DOMAIN tbl)]

\* (mutant) an UPDATE that inserts the row when no row has the id
ExecUpdate_Upsert(tbl, parts, args, whereArg) ==
    LET blank == Row("", 0, "", [y |-> 1, m |-> 1], Nil)
    IN  [tbl  |-> [i \in (DOMAIN tbl) \cup {args[whereArg]} |->
                      IF i # args[whereArg] THEN tbl[i]
                      ELSE IF i \in DOMAIN tbl THEN SetCols(tbl[i], parts, args)
                      ELSE SetCols(blank, parts, args)],
         rowsAffected |-> 1]

\* UPDATE subscriptions SET parts WHERE id = $whereArg
ExecUpdate(tbl, parts, args, whereArg) ==
    [tbl  |-> [i \in DOMAIN tbl |->
                  IF i = args[whereArg] THEN SetCols(tbl[i], parts, args) ELSE tbl[i]],
     rowsAffected |-> IF args[whereArg] \in DOMAIN tbl THEN 1 ELSE 0]

\* DELETE FROM subscriptions WHERE id = $1
ExecDelete(tbl, id) ==
    [tbl  |-> [i \in (DOMAIN tbl) \ {id} |-> tbl[i]],
     rowsAffected |-> IF id \in DOMAIN tbl THEN 1 ELSE 0]

----------------------------------------------------------------------------
(* SubscriptionsRepository *)

\* (mutant) no check of the price
PriceNegative_Off(price) == FALSE

\* (mutant) the comparison turned round
PriceNegative_Flipped(price) == price > 0

PriceNegative(price) == price < 0

\* CreateSub: [err, id, tbl, seq]
CreateSub(tbl, sq, serviceName, price, userId, startDate, endDate) ==
    LET fail(e) == [err |-> e, id |-> 0, tbl |-> tbl, seq |-> sq]
        start == ParseMonthYear(startDate)
        endT  == ParseMonthYear(endDate)
    IN  IF PriceNegative(price) THEN fail(ErrPriceNegative)
        ELSE IF ~start.ok THEN fail(ErrInvalidStart)
        ELSE IF endDate # EmptyText /\ ~endT.ok THEN fail(ErrInvalidEnd)
        ELSE LET endParam == IF endDate # EmptyText THEN Some(endT.t) ELSE Nil
                 ins == ExecInsert(tbl, sq, Row(serviceName, price, userId, start.t, endParam))
             IN  [err |-> OK, id |-> ins.id, tbl |-> ins.tbl, seq |-> ins.seq]

\* the entity rendered from a row: dates back to MM-YYYY, NULL end date as ""
Subscription(id, row) ==
    [ID |-> id, ServiceName |-> row.service_name, Price |-> row.price,
     UserID |-> row.user_id,
     StartDate |-> FormatMonthYear(row.start_date),
     EndDate |-> IF row.end_date # Nil THEN FormatMonthYear(row.end_date[1]) ELSE EmptyText]

\* GetSub: [err, sub]
GetSub(tbl, id) ==
    IF id \notin DOMAIN tbl
    THEN [err |-> ErrNotFound, sub |-> Nil]
    ELSE [err |-> OK, sub |-> Some(Subscription(id, tbl[id]))]

\* (mutant) "" is parsed like any other text; the column is never cleared
EndDateArg_NoClear(endDate) == Some(ParseMonthYear(endDate).t)

\* the end_date assignment of UpdateSub: "" clears the column
EndDateArg(endDate) ==
    IF endDate = EmptyText THEN Nil ELSE Some(ParseMonthYear(endDate).t)

\* the statement of UpdateSub and its outcome
UpdateExec(tbl, b, id) ==
    LET r == ExecUpdate(tbl, b.parts, Append(b.args, id), b.idx)
    IN  [err |-> OK, tbl |-> r.tbl]

\* (mutant) the check of the collected parts left out
NoParts_Off(parts) == FALSE

\* len(parts) == 0: no field was supplied
NoParts(parts) == Len(parts) = 0

\* (mutant) UpdateSub that writes each field with a statement of its own as
\* soon as the field has passed its check
UpdateSub_FieldByField(tbl, id, serviceName, price, userId, startDate, endDate) ==
    LET set(t, col, arg) == ExecUpdate(t, <<SetPart(col, 1)>>, <<arg, id>>, 2).tbl
        t1 == IF serviceName # Nil THEN set(tbl, "service_name", serviceName[1]) ELSE tbl
        t2 == IF price # Nil THEN set(t1, "price", price[1]) ELSE t1
        t3 == IF userId # Nil THEN set(t2, "user_id", userId[1]) ELSE t2
        t4 == IF startDate # Nil
              THEN set(t3, "start_date", ParseMonthYear(startDate[1]).t)
              ELSE t3
        t5 == IF endDate # Nil THEN set(t4, "end_date", EndDateArg(endDate[1])) ELSE t4
    IN  IF price # Nil /\ PriceNegative(price[1])
        THEN [err |-> ErrPriceNegative, tbl |-> t1]
        ELSE IF startDate # Nil /\ startDate[1] = EmptyText
        THEN [err |-> ErrStartEmpty, tbl |-> t3]
        ELSE IF startDate # Nil /\ ~ParseMonthYear(startDate[1]).ok
        THEN [err |-> ErrInvalidStart, tbl |-> t3]
        ELSE IF endDate # Nil /\ endDate[1] # EmptyText /\ ~ParseMonthYear(endDate[1]).ok
        THEN [err |-> ErrInvalidEnd, tbl |-> t4]
        ELSE IF serviceName = Nil /\ price = Nil /\ userId = Nil /\ startDate = Nil
                /\ endDate = Nil
        THEN [err |-> ErrNoFields, tbl |-> tbl]
        ELSE [err |-> OK, tbl |-> t5]

\* UpdateSub: [err, tbl]
UpdateSub(tbl, id, serviceName, price, userId, startDate, endDate) ==
    LET fail(e) == [err |-> e, tbl |-> tbl]
        b1 == IF serviceName # Nil
              THEN AddPart(EmptyBuild, SetPart("service_name", EmptyBuild.idx), serviceName[1])
              ELSE EmptyBuild
        b2 == IF price # Nil
              THEN AddPart(b1, SetPart("price", b1.idx), price[1])
              ELSE b1
        b3 == IF userId # Nil
              THEN AddPart(b2, SetPart("user_id", b2.idx), userId[1])
              ELSE b2
        b4 == IF startDate # Nil
              THEN AddPart(b3, SetPart("start_date", b3.idx), ParseMonthYear(startDate[1]).t)
              ELSE b3
        b5 == IF endDate # Nil
              THEN AddPart(b4, SetPart("end_date", b4.idx), EndDateArg(endDate[1]))
              ELSE b4
    IN  IF price # Nil /\ PriceNegative(price[1]) THEN fail(ErrPriceNegative)
        ELSE IF startDate # Nil /\ startDate[1] = EmptyText THEN fail(ErrStartEmpty)
        ELSE IF startDate # Nil /\ ~ParseMonthYear(startDate[1]).ok THEN fail(ErrInvalidStart)
        ELSE IF endDate # Nil /\ endDate[1] # EmptyText /\ ~ParseMonthYear(endDate[1]).ok
             THEN fail(ErrInvalidEnd)
        ELSE IF NoParts(b5.parts) THEN fail(ErrNoFields)
        ELSE UpdateExec(tbl, b5, id)

\* (mutant) DeleteSub that does not look at the rows affected
DeleteSub_IgnoreRows(tbl, id) ==
    [err |-> OK, tbl |-> ExecDelete(tbl, id).tbl]

\* DeleteSub: [err, tbl]
DeleteSub(tbl, id) ==
    LET r == ExecDelete(tbl, id)
    IN  IF r.rowsAffected = 0
        THEN [err |-> ErrNotFound, tbl |-> r.tbl]
        ELSE [err |-> OK, tbl |-> r.tbl]

RECURSIVE OrderById_Desc(_)
\* (mutant) ORDER BY id DESC
OrderById_Desc(S) ==
    IF S = {} THEN <<>>
    ELSE LET hi == CHOOSE i \in S : \A j \in S : j <= i
         IN  <<hi>> \o OrderById_Desc(S \ {hi})

RECURSIVE OrderById(_)
\* ORDER BY id: the ids in ascending order
OrderById(S) ==
    IF S = {} THEN <<>>
    ELSE LET lo == CHOOSE i \in S : \A j \in S : i <= j
         IN  <<lo>> \o OrderById(S \ {lo})

\* GetSubsList: [err, subs]
GetSubsList(tbl) ==
    LET ids == OrderById(DOMAIN tbl)
    IN  [err |-> OK, subs |-> [k \in 1..Len(ids) |-> Subscription(ids[k], tbl[ids[k]])]]

----------------------------------------------------------------------------
(* GetTotalCost: the WHERE conditions and the aggregate *)

\* "col = $idx"
EqPart(col, idx) == [kind |-> "eq", col |-> col, a |-> idx, b |-> 0]

\* (mutant) the two placeholders of the period condition exchanged
OverlapPart_Swapped(idx) == [kind |-> "overlap", col |-> "", a |-> idx, b |-> idx + 1]

\* "start_date <= $idx+1 AND (end_date IS NULL OR end_date >= $idx)"
OverlapPart(idx) == [kind |-> "overlap", col |-> "", a |-> idx + 1, b |-> idx]

\* "(end_date IS NULL OR end_date >= $idx)"
FromPart(idx) == [kind |-> "from", col |-> "", a |-> 0, b |-> idx]

\* (mutant) the condition of the other branch, on end_date
UntilPart_OnEndDate(idx) == [kind |-> "from", col |-> "", a |-> 0, b |-> idx]

\* "start_date <= $idx"
UntilPart(idx) == [kind |-> "until", col |-> "", a |-> idx, b |-> 0]

\* whether a row satisfies one condition of the WHERE clause
Holds(row, part, args) ==
    CASE part.kind = "eq"      -> row[part.col] = args[part.a]
      [] part.kind = "overlap" -> /\ DateLE(row.start_date, args[part.a])
                                  /\ \/ row.end_date = Nil
                                     \/ DateLE(args[part.b], row.end_date[1])
      [] part.kind = "from"    -> \/ row.end_date = Nil
                                  \/ DateLE(args[part.b], row.end_date[1])
      [] part.kind = "until"   -> DateLE(row.start_date, args[part.a])

\* (mutant) the conditions joined by OR
Where_Or(row, parts, args) ==
    Len(parts) = 0 \/ \E k \in 1..Len(parts) : Holds(row, parts[k], args)

\* the conditions are joined by AND; with no condition there is no WHERE
Where(row, parts, args) == \A k \in 1..Len(parts) : Holds(row, parts[k], args)

\* (mutant) COUNT(*) in place of SUM(price)
SumPrice_Count(tbl, S) == Cardinality(S)

RECURSIVE SumPrice(_, _)
\* SUM(price) over the rows with ids in S
SumPrice(tbl, S) ==
    IF S = {} THEN 0
    ELSE LET i == CHOOSE i \in S : TRUE
         IN  tbl[i].price + SumPrice(tbl, S \ {i})

\* SELECT COALESCE(SUM(price),0) FROM subscriptions [WHERE ...]
ExecSum(tbl, parts, args) ==
    SumPrice(tbl, {i \in DOMAIN tbl : Where(tbl[i], parts, args)})

\* (mutant) with both bounds given, only the condition on the start of the
\* period is built
PeriodBuild_StartOnly(b, periodStart, periodEnd) ==
    IF periodStart # Nil
    THEN AddPart(b, FromPart(b.idx), periodStart[1])
    ELSE IF periodEnd # Nil
    THEN AddPart(b, UntilPart(b.idx), periodEnd[1])
    ELSE b

\* the period condition, from the bounds that were given
PeriodBuild(b, periodStart, periodEnd) ==
    IF periodStart # Nil /\ periodEnd # Nil
    THEN [parts |-> Append(b.parts, OverlapPart(b.idx)),
          args  |-> Append(Append(b.args, periodStart[1]), periodEnd[1]),
          idx   |-> b.idx + 2]
    ELSE IF periodStart # Nil
    THEN AddPart(b, FromPart(b.idx), periodStart[1])
    ELSE IF periodEnd # Nil
    THEN AddPart(b, UntilPart(b.idx), periodEnd[1])
    ELSE b

\* GetTotalCost: [err, total]
GetTotalCost(tbl, userId, serviceName, startDate, endDate) ==
    LET fail(e) == [err |-> e, total |-> 0]
        b1 == IF userId # Nil
              THEN AddPart(EmptyBuild, EqPart("user_id", EmptyBuild.idx), userId[1])
              ELSE EmptyBuild
        b2 == IF serviceName # Nil
              THEN AddPart(b1, EqPart("service_name", b1.idx), serviceName[1])
              ELSE b1
        periodStart == IF startDate # Nil THEN Some(ParseMonthYear(startDate[1]).t) ELSE Nil
        periodEnd   == IF endDate # Nil THEN Some(ParseMonthYear(endDate[1]).t) ELSE Nil
        b3 == PeriodBuild(b2, periodStart, periodEnd)
    IN  IF startDate # Nil /\ startDate[1] = EmptyText THEN fail(ErrStartEmpty)
        ELSE IF startDate # Nil /\ ~ParseMonthYear(startDate[1]).ok THEN fail(ErrInvalidStart)
        ELSE IF endDate # Nil /\ endDate[1] = EmptyText THEN fail(ErrEndEmpty)
        ELSE IF endDate # Nil /\ ~ParseMonthYear(endDate[1]).ok THEN fail(ErrInvalidEnd)
        ELSE [err |-> OK, total |-> ExecSum(tbl, b3.parts, b3.args)]

----------------------------------------------------------------------------
(* Calls of the repository.  A call is received (pc = "pending", req holds *)
(* its arguments), runs as one step (pc = "done", last holds what it       *)
(* returned) and returns to the caller (pc = "idle").                      *)

NoReq  == [op |-> "none"]
NoCall == [op |-> "none", err |-> OK, out |-> Nil]
NoResp == [handler |-> "none", status |-> 0, body |-> Nil]

CreateRequests ==
    [op : {"CreateSub"}, serviceName : Names, price : CreatePrices, userId : Users,
     startDate : DateTexts, endDate : DateTexts]

UpdateRequests ==
    [op : {"UpdateSub"}, id : Ids, serviceName : Opt(UpdateNames), price : Opt(UpdatePrices),
     userId : Opt(UpdateUsers), startDate : Opt(UpdateDateTexts),
     endDate : Opt(UpdateDateTexts)]

IdRequests == [op : {"GetSub", "DeleteSub"}, id : Ids]

ListRequests == [op : {"GetSubsList"}]

TotalRequests ==
    [op : {"GetTotalCost"}, userId : Opt(Users), serviceName : Opt(Names),
     startDate : Opt(DateTexts), endDate : Opt(DateTexts)]

Requests ==
    CreateRequests \cup UpdateRequests \cup IdRequests \cup ListRequests \cup TotalRequests

Init ==
    /\ subscriptions = << >>
    /\ seq = 0
    /\ pc = "idle"
    /\ req = NoReq
    /\ last = NoCall
    /\ resp = NoResp

\* a caller invokes a method of the repository
Call ==
    /\ pc = "idle"
    /\ \E r \in Requests : req' = r
    /\ pc' = "pending"
    /\ UNCHANGED <<subscriptions, seq, last, resp>>

RunCreateSub ==
    /\ pc = "pending" /\ req.op = "CreateSub"
    /\ LET r == CreateSub(subscriptions, seq, req.serviceName, req.price, req.userId,
                          req.startDate, req.endDate)
       IN  /\ r.seq <= MaxId
           /\ subscriptions' = r.tbl
           /\ seq' = r.seq
           /\ last' = [op |-> "CreateSub", err |-> r.err, out |-> r.id]
    /\ pc' = "done"
    /\ UNCHANGED <<req, resp>>

RunGetSub ==
    /\ pc = "pending" /\ req.op = "GetSub"
    /\ LET r == GetSub(subscriptions, req.id)
       IN  last' = [op |-> "GetSub", err |-> r.err, out |-> r.sub]
    /\ pc' = "done"
    /\ UNCHANGED <<subscriptions, seq, req, resp>>

RunUpdateSub ==
    /\ pc = "pending" /\ req.op = "UpdateSub"
    /\ LET r == UpdateSub(subscriptions, req.id, req.serviceName, req.price, req.userId,
                          req.startDate, req.endDate)
       IN  /\ subscriptions' = r.tbl
           /\ last' = [op |-> "UpdateSub", err |-> r.err, out |-> Nil]
    /\ pc' = "done"
    /\ UNCHANGED <<seq, req, resp>>

RunDeleteSub ==
    /\ pc = "pending" /\ req.op = "DeleteSub"
    /\ LET r == DeleteSub(subscriptions, req.id)
       IN  /\ subscriptions' = r.tbl
           /\ last' = [op |-> "DeleteSub", err |-> r.err, out |-> Nil]
    /\ pc' = "done"
    /\ UNCHANGED <<seq, req, resp>>

RunGetSubsList ==
    /\ pc = "pending" /\ req.op = "GetSubsList"
    /\ LET r == GetSubsList(subscriptions)
       IN  last' = [op |-> "GetSubsList", err |-> r.err, out |-> r.subs]
    /\ pc' = "done"
    /\ UNCHANGED <<subscriptions, seq, req, resp>>

RunGetTotalCost ==
    /\ pc = "pending" /\ req.op = "GetTotalCost"
    /\ LET r == GetTotalCost(subscriptions, req.userId, req.serviceName,
                             req.startDate, req.endDate)
       IN  last' = [op |-> "GetTotalCost", err |-> r.err, out |-> r.total]
    /\ pc' = "done"
    /\ UNCHANGED <<subscriptions, seq, req, resp>>

\* the call returns to its caller
Return ==
    /\ pc = "done"
    /\ pc' = "idle"
    /\ req' = NoReq
    /\ last' = NoCall
    /\ resp' = NoResp
    /\ UNCHANGED <<subscriptions, seq>>

Next ==
    \/ Call
    \/ RunCreateSub
    \/ RunGetSub
    \/ RunUpdateSub
    \/ RunDeleteSub
    \/ RunGetSubsList
    \/ RunGetTotalCost
    \/ Return

Spec == Init /\ [][Next]_vars

----------------------------------------------------------------------------
(* The HTTP handlers *)

\* values that HTTP clients send
HttpNames == {"", "netflix"}
HttpUsers == {"", "u1"}
HttpPrices == {-5, 0, 7}
HttpDateTexts == {EmptyText, D_13_2024, D_01_2024}

StatusOK == 200
StatusCreated == 201
StatusNoContent == 204
StatusBadRequest == 400
StatusNotFound == 404
StatusMethodNotAllowed == 405
StatusInternalServerError == 500

\* strings.Contains(err.Error(), sub) for the messages the repository returns
Contains(err, sub) ==
    CASE sub = "not found"           -> err = ErrNotFound
      [] sub = "invalid"             -> err \in {ErrInvalidStart, ErrInvalidEnd}
      [] sub = "no fields to update" -> err = ErrNoFields
      [] sub = "cannot be empty"     -> err \in {ErrStartEmpty, ErrEndEmpty}

\* q.Get(name): "" when the parameter is missing, else its (first) value
QueryGet(param) == IF param = Nil THEN "" ELSE param[1]

\* the same for a parameter that holds a date
QueryGetDate(param) == IF param = Nil THEN EmptyText ELSE param[1]

\* if v := q.Get(name); v != "" { ptr = &v }
QueryPtr(v) == IF v # "" THEN Some(v) ELSE Nil

\* the same for a parameter that holds a date
QueryDatePtr(v) == IF v # EmptyText THEN Some(v) ELSE Nil

PostRequests ==
    [op : {"POST /subscriptions"}, json : {TRUE}, ServiceName : HttpNames,
     Price : HttpPrices, UserID : HttpUsers, StartDate : HttpDateTexts,
     EndDate : HttpDateTexts]

PutRequests ==
    [op : {"PUT /subscriptions/{id}"}, idPart : {"number"}, id : Ids, json : {TRUE},
     ServiceName : Opt(HttpNames), Price : Opt(HttpPrices), UserID : Opt(HttpUsers),
     StartDate : Opt(HttpDateTexts), EndDate : Opt(HttpDateTexts)]

IdPathRequests ==
    [op : {"GET /subscriptions/{id}", "DELETE /subscriptions/{id}"},
     idPart : {"number"}, id : Ids]

TotalQueryRequests ==
    [op : {"GET /subscriptions/total"}, user_id : Opt(HttpUsers),
     service_name : Opt(HttpNames), start_date : Opt(HttpDateTexts),
     end_date : Opt(HttpDateTexts)]

\* requests that a handler answers before it reaches the repository
MalformedRequests ==
    {[op |-> "POST /subscriptions", json |-> FALSE],
     [op |-> "PUT /subscriptions/{id}", idPart |-> "number", id |-> 1, json |-> FALSE],
     [op |-> "GET /subscriptions/{id}", idPart |-> "missing", id |-> 0],
     [op |-> "GET /subscriptions/{id}", idPart |-> "invalid", id |-> 0],
     [op |-> "PATCH /subscriptions"],
     [op |-> "PATCH /subscriptions/{id}", idPart |-> "number", id |-> 1],
     [op |-> "POST /subscriptions/total"]}

HttpRequests ==
    PostRequests \cup PutRequests \cup IdPathRequests \cup TotalQueryRequests
    \cup {[op |-> "GET /subscriptions"]} \cup MalformedRequests

Reply(handler, status, body) == [handler |-> handler, status |-> status, body |-> body]

\* a request arrives at the server
Receive ==
    /\ pc = "idle"
    /\ \E r \in HttpRequests : req' = r
    /\ pc' = "pending"
    /\ UNCHANGED <<subscriptions, seq, last, resp>>

\* subscriptionsHandler, POST
ServePost ==
    /\ pc = "pending" /\ req.op = "POST /subscriptions"
    /\ pc' = "done"
    /\ UNCHANGED req
    /\ IF ~req.json
       THEN /\ resp' = Reply("subscriptionsHandler", StatusBadRequest, "invalid json body")
            /\ UNCHANGED <<subscriptions, seq, last>>
       ELSE IF req.ServiceName = "" \/ req.UserID = "" \/ req.StartDate = EmptyText
       THEN /\ resp' = Reply("subscriptionsHandler", StatusBadRequest, "missing required fields")
            /\ UNCHANGED <<subscriptions, seq, last>>
       ELSE IF req.Price < 0
       THEN /\ resp' = Reply("subscriptionsHandler", StatusBadRequest, "price must be non-negative")
            /\ UNCHANGED <<subscriptions, seq, last>>
       ELSE LET r == CreateSub(subscriptions, seq, req.ServiceName, req.Price, req.UserID,
                               req.StartDate, req.EndDate)
            IN  /\ r.seq <= MaxId
                /\ subscriptions' = r.tbl
                /\ seq' = r.seq
                /\ last' = [op |-> "CreateSub", err |-> r.err, out |-> r.id]
                /\ resp' = IF r.err # OK
                           THEN Reply("subscriptionsHandler", StatusInternalServerError, r.err)
                           ELSE Reply("subscriptionsHandler", StatusCreated, r.id)

\* subscriptionsHandler, GET
ServeList ==
    /\ pc = "pending" /\ req.op = "GET /subscriptions"
    /\ pc' = "done"
    /\ LET r == GetSubsList(subscriptions)
       IN  /\ last' = [op |-> "GetSubsList", err |-> r.err, out |-> r.subs]
           /\ resp' = IF r.err # OK
                      THEN Reply("subscriptionsHandler", StatusInternalServerError, r.err)
                      ELSE Reply("subscriptionsHandler", StatusOK, r.subs)
    /\ UNCHANGED <<subscriptions, seq, req>>

\* subscriptionsIDHandler, before the method switch: the id of the path
BadPath ==
    /\ pc = "pending"
    /\ req.op \in {"GET /subscriptions/{id}", "PUT /subscriptions/{id}",
                   "DELETE /subscriptions/{id}", "PATCH /subscriptions/{id}"}
    /\ req.idPart # "number"
    /\ pc' = "done"
    /\ resp' = Reply("subscriptionsIDHandler", StatusBadRequest,
                     IF req.idPart = "missing" THEN "missing id in path" ELSE "invalid id")
    /\ UNCHANGED <<subscriptions, seq, req, last>>

\* subscriptionsIDHandler, GET
ServeGet ==
    /\ pc = "pending" /\ req.op = "GET /subscriptions/{id}" /\ req.idPart = "number"
    /\ pc' = "done"
    /\ LET r == GetSub(subscriptions, req.id)
       IN  /\ last' = [op |-> "GetSub", err |-> r.err, out |-> r.sub]
           /\ resp' = IF r.err # OK
                      THEN IF Contains(r.err, "not found")
                           THEN Reply("subscriptionsIDHandler", StatusNotFound, "not found")
                           ELSE Reply("subscriptionsIDHandler", StatusInternalServerError, r.err)
                      ELSE Reply("subscriptionsIDHandler", StatusOK, r.sub[1])
    /\ UNCHANGED <<subscriptions, seq, req>>

\* the status of a failed UpdateSub
UpdateErrorReply(err) ==
    IF Contains(err, "not found")
    THEN Reply("subscriptionsIDHandler", StatusNotFound, "not found")
    ELSE IF Contains(err, "no fields to update") \/ Contains(err, "invalid")
    THEN Reply("subscriptionsIDHandler", StatusBadRequest, err)
    ELSE Reply("subscriptionsIDHandler", StatusInternalServerError, err)

\* subscriptionsIDHandler, PUT
ServePut ==
    /\ pc = "pending" /\ req.op = "PUT /subscriptions/{id}" /\ req.idPart = "number"
    /\ pc' = "done"
    /\ UNCHANGED <<seq, req>>
    /\ IF ~req.json
       THEN /\ resp' = Reply("subscriptionsIDHandler", StatusBadRequest, "invalid json body")
            /\ UNCHANGED <<subscriptions, last>>
       ELSE IF req.Price # Nil /\ req.Price[1] < 0
       THEN /\ resp' = Reply("subscriptionsIDHandler", StatusBadRequest, "price must be non-negative")
            /\ UNCHANGED <<subscriptions, last>>
       ELSE LET r == UpdateSub(subscriptions, req.id, req.ServiceName, req.Price, req.UserID,
                               req.StartDate, req.EndDate)
            IN  /\ subscriptions' = r.tbl
                /\ last' = [op |-> "UpdateSub", err |-> r.err, out |-> Nil]
                /\ resp' = IF r.err # OK
                           THEN UpdateErrorReply(r.err)
                           ELSE Reply("subscriptionsIDHandler", StatusNoContent, Nil)

\* subscriptionsIDHandler, DELETE
ServeDelete ==
    /\ pc = "pending" /\ req.op = "DELETE /subscriptions/{id}" /\ req.idPart = "number"
    /\ pc' = "done"
    /\ LET r == DeleteSub(subscriptions, req.id)
       IN  /\ subscriptions' = r.tbl
           /\ last' = [op |-> "DeleteSub", err |-> r.err, out |-> Nil]
           /\ resp' = IF r.err # OK
                      THEN IF Contains(r.err, "not found")
                           THEN Reply("subscriptionsIDHandler", StatusNotFound, "not found")
                           ELSE Reply("subscriptionsIDHandler", StatusInternalServerError, r.err)
                      ELSE Reply("subscriptionsIDHandler", StatusNoContent, Nil)
    /\ UNCHANGED <<seq, req>>

\* the status of a failed GetTotalCost
TotalErrorReply(err) ==
    IF Contains(err, "invalid") \/ Contains(err, "cannot be empty")
    THEN Reply("subscriptionsTotalHandler", StatusBadRequest, err)
    ELSE Reply("subscriptionsTotalHandler", StatusInternalServerError, err)

\* subscriptionsTotalHandler, GET
ServeTotal ==
    /\ pc = "pending" /\ req.op = "GET /subscriptions/total"
    /\ pc' = "done"
    /\ LET r == GetTotalCost(subscriptions,
                             QueryPtr(QueryGet(req.user_id)),
                             QueryPtr(QueryGet(req.service_name)),
                             QueryDatePtr(QueryGetDate(req.start_date)),
                             QueryDatePtr(QueryGetDate(req.end_date)))
       IN  /\ last' = [op |-> "GetTotalCost", err |-> r.err, out |-> r.total]
           /\ resp' = IF r.err # OK
                      THEN TotalErrorReply(r.err)
                      ELSE Reply("subscriptionsTotalHandler", StatusOK, r.total)
    /\ UNCHANGED <<subscriptions, seq, req>>

\* the default case of a handler's method switch
ServeNotAllowed ==
    /\ pc = "pending"
    /\ \/ req.op \in {"PATCH /subscriptions", "POST /subscriptions/total"}
       \/ req.op = "PATCH /subscriptions/{id}" /\ req.idPart = "number"
    /\ pc' = "done"
    /\ resp' = Reply(CASE req.op = "PATCH /subscriptions" -> "subscriptionsHandler"
                       [] req.op = "POST /subscriptions/total" -> "subscriptionsTotalHandler"
                       [] OTHER -> "subscriptionsIDHandler",
                     StatusMethodNotAllowed, "method not allowed")
    /\ UNCHANGED <<subscriptions, seq, req, last>>

NextHttp ==
    \/ Receive
    \/ ServePost
    \/ ServeList
    \/ BadPath
    \/ ServeGet
    \/ ServePut
    \/ ServeDelete
    \/ ServeTotal
    \/ ServeNotAllowed
    \/ Return

SpecHttp == Init /\ [][NextHttp]_vars

----------------------------------------------------------------------------
(* A date text on its way in and out: CreateSub parses the text it is given *)
(* and GetSub formats the stored date.  Every text of up to MaxTextLen      *)
(* characters is tried.                                                      *)

MaxTextLen == 8

ParseChars == {"0", "1", "3", "-", "x"}

\* the texts of n characters
ParseTexts(n) == [1..n -> ParseChars]

InitParse ==
    /\ subscriptions = << >>
    /\ seq = 0
    /\ pc = "pending"
    /\ \E n \in 0..MaxTextLen :
          req \in [op : {"time.Parse"}, value : ParseTexts(n)]
    /\ last = NoCall
    /\ resp = NoResp

\* start, err := time.Parse("01-2006", startDate)
RunParse ==
    /\ pc = "pending" /\ req.op = "time.Parse"
    /\ LET start == ParseMonthYear(req.value)
       IN  last' = IF ~start.ok
                   THEN [op |-> "time.Parse", err |-> ErrInvalidStart, out |-> Nil]
                   ELSE [op |-> "time.Parse", err |-> OK, out |-> Some(start.t)]
    /\ pc' = "done"
    /\ UNCHANGED <<subscriptions, seq, req, resp>>

\* sub.StartDate = start.Format("01-2006")
RunFormat ==
    /\ pc = "done" /\ last.op = "time.Parse" /\ last.err = OK
    /\ last' = [op |-> "Format", err |-> OK, out |-> FormatMonthYear(last.out[1])]
    /\ pc' = "formatted"
    /\ UNCHANGED <<subscriptions, seq, req, resp>>

NextParse ==
    \/ RunParse
    \/ RunFormat

SpecParse == InitParse /\ [][NextParse]_vars

----------------------------------------------------------------------------
(* Two calls at a time.  The server runs each request on a goroutine of its *)
(* own and the repository takes a connection of the pool per statement, so  *)
(* an UpdateSub and a DeleteSub (or two of either) can be in flight         *)
(* together.  Each statement is one step; what UpdateSub does before its    *)
(* statement reads only its arguments.  Here pc, req and last hold one      *)
(* value per client, and every id holds a row at the start.                 *)

Clients == {"a", "b"}

\* rows that the table holds at the start
RaceRows ==
    {Row("netflix", 7, "u1", [y |-> 2023, m |-> 12], Some([y |-> 2024, m |-> 1])),
     Row("netflix", 7, "u1", [y |-> 2023, m |-> 12], Nil)}

RaceUpdateRequests ==
    [op : {"UpdateSub"}, id : Ids, serviceName : Opt(UpdateNames), price : Opt(UpdatePrices),
     userId : Opt(UpdateUsers), startDate : Opt({D_01_2024}), endDate : Opt({EmptyText})]

RaceRequests == RaceUpdateRequests \cup [op : {"DeleteSub"}, id : Ids]

InitRace ==
    /\ subscriptions \in [Ids -> RaceRows]
    /\ seq = MaxId
    /\ pc = [c \in Clients |-> "pending"]
    /\ req \in [Clients -> RaceRequests]
    /\ last = [c \in Clients |-> NoCall]
    /\ resp = NoResp

\* UpdateSub up to its statement: the checks of the arguments and the parts
BuildUpdate(c) ==
    /\ pc[c] = "pending" /\ req[c].op = "UpdateSub"
    /\ LET r == UpdateSub(subscriptions, req[c].id, req[c].serviceName, req[c].price,
                          req[c].userId, req[c].startDate, req[c].endDate)
       IN  IF r.err \in {ErrPriceNegative, ErrStartEmpty, ErrInvalidStart, ErrInvalidEnd,
                         ErrNoFields}
           THEN /\ pc' = [pc EXCEPT ![c] = "done"]
                /\ last' = [last EXCEPT ![c] = [op |-> "UpdateSub", err |-> r.err, out |-> Nil]]
           ELSE /\ pc' = [pc EXCEPT ![c] = "built"]
                /\ last' = last
    /\ UNCHANGED <<subscriptions, seq, req, resp>>

\* the UPDATE statement of UpdateSub, and its return
ExecUpdateStmt(c) ==
    /\ pc[c] = "built"
    /\ LET r == UpdateSub(subscriptions, req[c].id, req[c].serviceName, req[c].price,
                          req[c].userId, req[c].startDate, req[c].endDate)
       IN  /\ subscriptions' = r.tbl
           /\ last' = [last EXCEPT ![c] = [op |-> "UpdateSub", err |-> r.err, out |-> Nil]]
    /\ pc' = [pc EXCEPT ![c] = "done"]
    /\ UNCHANGED <<seq, req, resp>>

\* DeleteSub: the DELETE statement and the look at the rows affected
ExecDeleteStmt(c) ==
    /\ pc[c] = "pending" /\ req[c].op = "DeleteSub"
    /\ LET r == DeleteSub(subscriptions, req[c].id)
       IN  /\ subscriptions' = r.tbl
           /\ last' = [last EXCEPT ![c] = [op |-> "DeleteSub", err |-> r.err, out |-> Nil]]
    /\ pc' = [pc EXCEPT ![c] = "done"]
    /\ UNCHANGED <<seq, req, resp>>

NextRace ==
    \E c \in Clients :
        \/ BuildUpdate(c)
        \/ ExecUpdateStmt(c)
        \/ ExecDeleteStmt(c)

SpecRace == InitRace /\ [][NextRace]_vars

----------------------------------------------------------------------------
(* Properties.  What the specification calls ValidationError, NotFoundError *)
(* are these errors of the repository.                                      *)

ValidationErrors ==
    {ErrPriceNegative, ErrInvalidStart, ErrInvalidEnd, ErrStartEmpty, ErrEndEmpty, ErrNoFields}

\* a text of the form MM-YYYY, month 01..12
WellFormed(text) ==
    /\ Len(text) = 7
    /\ text[3] = "-"
    /\ \A i \in {1, 2, 4, 5, 6, 7} : isDigit(text[i])
    /\ 10 * DigitVal(text[1]) + DigitVal(text[2]) \in 1..12

\* the month a well-formed text names, counted from year 0
MonthsOf(text) ==
    12 * (1000 * DigitVal(text[4]) + 100 * DigitVal(text[5]) + 10 * DigitVal(text[6])
          + DigitVal(text[7]))
    + 10 * DigitVal(text[1]) + DigitVal(text[2])

\* the same for a date of the table
MonthsOfDate(d) == 12 * d.y + d.m

\* an update request that supplies a field, and one whose supplied fields are valid
SuppliesSome(r) ==
    \/ r.serviceName # Nil \/ r.price # Nil \/ r.userId # Nil
    \/ r.startDate # Nil \/ r.endDate # Nil

SuppliedValid(r) ==
    /\ r.price # Nil => r.price[1] >= 0
    /\ r.startDate # Nil => WellFormed(r.startDate[1])
    /\ r.endDate # Nil => (r.endDate[1] = EmptyText \/ WellFormed(r.endDate[1]))

\* the step in which the repository serves a call op
Runs(op) == pc = "pending" /\ req.op = op /\ pc' = "done"

\* C1: UpdateSub with a supplied field, all supplied fields valid and no row
\* under the id fails with "not found" and leaves the table as it was.
C1_UpdateMissingIdNotFound ==
    [][ (Runs("UpdateSub") /\ SuppliesSome(req) /\ SuppliedValid(req)
         /\ req.id \notin DOMAIN subscriptions)
        => (last'.err = ErrNotFound /\ subscriptions' = subscriptions) ]_vars

\* C2: a successful UpdateSub changes exactly the supplied fields of the row
\* with that id: the row shows the supplied values, its other columns, its
\* id and every other row are as before.
C2_UpdateChangesOnlySupplied ==
    [][ (Runs("UpdateSub") /\ last'.err = OK)
        => /\ DOMAIN subscriptions' = DOMAIN subscriptions
           /\ seq' = seq
           /\ \A i \in DOMAIN subscriptions :
                 i # req.id => subscriptions'[i] = subscriptions[i]
           /\ req.id \in DOMAIN subscriptions =>
                 LET old  == subscriptions[req.id]
                     new  == subscriptions'[req.id]
                     seen == GetSub(subscriptions', req.id).sub[1]
                 IN  /\ seen.ID = req.id
                     /\ IF req.serviceName = Nil
                        THEN new.service_name = old.service_name
                        ELSE seen.ServiceName = req.serviceName[1]
                     /\ IF req.price = Nil
                        THEN new.price = old.price
                        ELSE seen.Price = req.price[1]
                     /\ IF req.userId = Nil
                        THEN new.user_id = old.user_id
                        ELSE seen.UserID = req.userId[1]
                     /\ IF req.startDate = Nil
                        THEN new.start_date = old.start_date
                        ELSE seen.StartDate = req.startDate[1]
                     /\ IF req.endDate = Nil
                        THEN new.end_date = old.end_date
                        ELSE seen.EndDate = req.endDate[1] ]_vars

\* C2 witness: an update of one of two rows went through, supplying some
\* fields and not others.
C2_Witness ==
    /\ pc = "done" /\ last.op = "UpdateSub" /\ last.err = OK
    /\ Cardinality(DOMAIN subscriptions) = 2
    /\ req.id \in DOMAIN subscriptions
    /\ req.serviceName # Nil /\ req.endDate # Nil
    /\ req.price = Nil /\ req.userId = Nil /\ req.startDate = Nil

\* valid arguments of CreateSub
ValidCreate(r) ==
    /\ r.price >= 0
    /\ WellFormed(r.startDate)
    /\ r.endDate = EmptyText \/ WellFormed(r.endDate)

\* C3: CreateSub with valid arguments succeeds, and GetSub on the id it
\* returned shows the arguments, the end date "" when none was given.
C3_CreateThenGet ==
    (pc = "done" /\ last.op = "CreateSub" /\ ValidCreate(req))
    => /\ last.err = OK
       /\ LET g == GetSub(subscriptions, last.out)
          IN  /\ g.err = OK
              /\ g.sub[1].ID = last.out
              /\ g.sub[1].ServiceName = req.serviceName
              /\ g.sub[1].Price = req.price
              /\ g.sub[1].UserID = req.userId
              /\ g.sub[1].StartDate = req.startDate
              /\ g.sub[1].EndDate = req.endDate

\* C3 witness: a second row was created, with no end date.
C3_Witness ==
    /\ pc = "done" /\ last.op = "CreateSub" /\ last.err = OK
    /\ req.endDate = EmptyText
    /\ last.out = 2 /\ 1 \in DOMAIN subscriptions

\* C4: CreateSub with a negative price and UpdateSub with a supplied negative
\* price fail with a validation error and leave the table as it was.
C4_NegativePriceRejected ==
    [][ (\/ Runs("CreateSub") /\ req.price < 0
         \/ Runs("UpdateSub") /\ req.price # Nil /\ req.price[1] < 0)
        => /\ last'.err \in ValidationErrors
           /\ subscriptions' = subscriptions
           /\ seq' = seq ]_vars

\* C4 witness: an update of a stored row supplied a negative price, with
\* other valid fields, and was refused.
C4_Witness ==
    /\ pc = "done" /\ last.op = "UpdateSub" /\ last.err \in ValidationErrors
    /\ req.id \in DOMAIN subscriptions
    /\ req.price # Nil /\ req.price[1] < 0
    /\ req.serviceName # Nil

\* ids that CreateSub returned and DeleteSub removed
Deleted == (1..seq) \ DOMAIN subscriptions

\* C5: an id that CreateSub returns is new and holds a row; DeleteSub of an
\* id that holds a row succeeds and removes it; an id once removed stays
\* removed, and DeleteSub and GetSub of it fail with "not found".
C5_DeleteOnce ==
    [][ /\ (Runs("CreateSub") /\ last'.err = OK)
           => (last'.out \notin 1..seq /\ last'.out \in DOMAIN subscriptions'
               /\ last'.out \in 1..seq')
        /\ (Runs("DeleteSub") /\ req.id \in DOMAIN subscriptions)
           => (last'.err = OK /\ req.id \notin DOMAIN subscriptions')
        /\ Deleted \subseteq Deleted'
        /\ (pc = "pending" /\ req.op \in {"DeleteSub", "GetSub"} /\ pc' = "done"
            /\ req.id \in Deleted)
           => last'.err = ErrNotFound ]_vars

\* C5 witness: DeleteSub of an id that was created and deleted before.
C5_Witness ==
    /\ pc = "done" /\ last.op = "DeleteSub" /\ last.err = ErrNotFound
    /\ req.id \in Deleted

----------------------------------------------------------------------------
(* GetTotalCost *)

RECURSIVE PriceTotal(_)
\* the sum of price over the stored rows with ids in S
PriceTotal(S) ==
    IF S = {} THEN 0
    ELSE LET i == CHOOSE j \in S : TRUE
         IN  subscriptions[i].price + PriceTotal(S \ {i})

\* the supplied period bounds are well-formed
BoundsValid(r) ==
    /\ r.startDate # Nil => WellFormed(r.startDate[1])
    /\ r.endDate # Nil => WellFormed(r.endDate[1])

UserMatches(row, r) == r.userId = Nil \/ row.user_id = r.userId[1]
NameMatches(row, r) == r.serviceName = Nil \/ row.service_name = r.serviceName[1]

\* the row started by the end of the period
StartedBy(row, periodEnd) == MonthsOfDate(row.start_date) <= MonthsOf(periodEnd)

\* the row has no end, or ends at or after the start of the period
ActiveFrom(row, periodStart) ==
    row.end_date = Nil \/ MonthsOfDate(row.end_date[1]) >= MonthsOf(periodStart)

\* the served call is GetTotalCost
TotalDone == pc = "done" /\ last.op = "GetTotalCost"

\* C6: with both period bounds supplied, GetTotalCost counts a row exactly
\* when start_date <= periodEnd and (end_date is absent or end_date >=
\* periodStart), among the rows that pass the other supplied filters.
C6_BothBoundsOverlap ==
    (TotalDone /\ req.startDate # Nil /\ req.endDate # Nil /\ BoundsValid(req))
    => /\ last.err = OK
       /\ last.out = PriceTotal({i \in DOMAIN subscriptions :
                        /\ UserMatches(subscriptions[i], req)
                        /\ NameMatches(subscriptions[i], req)
                        /\ StartedBy(subscriptions[i], req.endDate[1])
                        /\ ActiveFrom(subscriptions[i], req.startDate[1])})

\* C6 witness: the period is the month 01-2024; a row that runs from 12-2023
\* to 01-2024 is counted and a row that ended in 12-2023 is not.
C6_Witness ==
    /\ TotalDone /\ last.err = OK /\ last.out = 7
    /\ req.userId = Nil /\ req.serviceName = Nil
    /\ req.startDate = Some(D_01_2024) /\ req.endDate = Some(D_01_2024)
    /\ \E i, j \in DOMAIN subscriptions :
          /\ subscriptions[i].price = 7 /\ subscriptions[j].price = 7
          /\ subscriptions[i].start_date = [y |-> 2023, m |-> 12]
          /\ subscriptions[i].end_date = Some([y |-> 2024, m |-> 1])
          /\ subscriptions[j].start_date = [y |-> 2023, m |-> 12]
          /\ subscriptions[j].end_date = Some([y |-> 2023, m |-> 12])

\* C7: with only periodStart supplied a row is counted exactly when its
\* end_date is absent or >= periodStart; with only periodEnd, exactly when
\* its start_date <= periodEnd; the other date of the row plays no part.
C7_OneBound ==
    /\ (TotalDone /\ req.startDate # Nil /\ req.endDate = Nil /\ BoundsValid(req))
       => /\ last.err = OK
          /\ last.out = PriceTotal({i \in DOMAIN subscriptions :
                           /\ UserMatches(subscriptions[i], req)
                           /\ NameMatches(subscriptions[i], req)
                           /\ ActiveFrom(subscriptions[i], req.startDate[1])})
    /\ (TotalDone /\ req.startDate = Nil /\ req.endDate # Nil /\ BoundsValid(req))
       => /\ last.err = OK
          /\ last.out = PriceTotal({i \in DOMAIN subscriptions :
                           /\ UserMatches(subscriptions[i], req)
                           /\ NameMatches(subscriptions[i], req)
                           /\ StartedBy(subscriptions[i], req.endDate[1])})

\* C7 witness: only periodEnd is supplied; a row that started after it is
\* left out and a row that started before it, and has ended before it, counts.
C7_Witness ==
    /\ TotalDone /\ last.err = OK /\ last.out = 7
    /\ req.startDate = Nil /\ req.endDate = Some(D_12_2023)
    /\ \E i, j \in DOMAIN subscriptions :
          /\ subscriptions[i].price = 7 /\ subscriptions[j].price = 7
          /\ subscriptions[i].start_date = [y |-> 2023, m |-> 12]
          /\ subscriptions[j].start_date = [y |-> 2024, m |-> 1]

\* the row passes every supplied filter of the request
Matches(row, r) ==
    /\ r.userId # Nil => row.user_id = r.userId[1]
    /\ r.serviceName # Nil => row.service_name = r.serviceName[1]
    /\ r.endDate # Nil => StartedBy(row, r.endDate[1])
    /\ r.startDate # Nil => ActiveFrom(row, r.startDate[1])

\* C8: for every combination of supplied filters GetTotalCost returns the
\* sum of price over the rows that pass all of them; a filter that is not
\* supplied leaves no row out.
C8_FiltersConjoined ==
    (TotalDone /\ BoundsValid(req))
    => /\ last.err = OK
       /\ last.out = PriceTotal({i \in DOMAIN subscriptions : Matches(subscriptions[i], req)})

\* C8 witness: all four filters are supplied; one row passes them all and
\* the other passes the period and the service name but not the user.
C8_Witness ==
    /\ TotalDone /\ last.err = OK /\ last.out = 7
    /\ req.userId # Nil /\ req.serviceName # Nil
    /\ req.startDate # Nil /\ req.endDate # Nil
    /\ \E i, j \in DOMAIN subscriptions :
          /\ subscriptions[i].price = 7 /\ subscriptions[j].price = 7
          /\ Matches(subscriptions[i], req)
          /\ subscriptions[j].user_id # req.userId[1]
          /\ Matches(subscriptions[j], [req EXCEPT !.userId = Nil])

\* C9: GetTotalCost with no filter returns the sum of price over all stored
\* rows; it returns 0, and no error, when the table is empty or no row
\* passes the filters.
C9_TotalOfAll ==
    /\ (TotalDone /\ req.userId = Nil /\ req.serviceName = Nil
        /\ req.startDate = Nil /\ req.endDate = Nil)
       => (last.err = OK /\ last.out = PriceTotal(DOMAIN subscriptions))
    /\ (TotalDone /\ BoundsValid(req)
        /\ \A i \in DOMAIN subscriptions : ~Matches(subscriptions[i], req))
       => (last.err = OK /\ last.out = 0)

\* C9 witness: no filter, two stored rows of price 7.
C9_Witness ==
    /\ TotalDone /\ last.err = OK /\ last.out = 14
    /\ req.userId = Nil /\ req.serviceName = Nil
    /\ req.startDate = Nil /\ req.endDate = Nil
    /\ Cardinality(DOMAIN subscriptions) = 2

\* GetTotalCost itself refuses a period bound that is supplied as "".
StoreRejectsBlankBound ==
    (TotalDone /\ (req.startDate = Some(EmptyText) \/ req.endDate = Some(EmptyText)))
    => last.err \in ValidationErrors

\* C10: a total-cost request whose start_date or end_date is supplied as the
\* empty string is refused as a validation error (400); the blank bound is
\* not taken as "no filter".
C10_BlankBoundRejected ==
    (/\ pc = "done" /\ req.op = "GET /subscriptions/total"
     /\ (req.start_date = Some(EmptyText) \/ req.end_date = Some(EmptyText)))
    => (resp.status = StatusBadRequest /\ last.err \in ValidationErrors)

----------------------------------------------------------------------------
(* UpdateSub: no field, the end date *)

\* C11: UpdateSub with none of the five fields supplied fails with "no fields
\* to update", a validation error, whether the id holds a row or not, and
\* leaves the table as it was.
C11_NoFieldsRejected ==
    [][ (Runs("UpdateSub") /\ ~SuppliesSome(req))
        => /\ last'.err = ErrNoFields
           /\ ErrNoFields \in ValidationErrors
           /\ subscriptions' = subscriptions
           /\ seq' = seq ]_vars

\* C11 witness: the table holds a row; an update with no field of an id that
\* holds no row was refused (the formula covers the call on either id).
C11_Witness ==
    /\ pc = "done" /\ last.op = "UpdateSub" /\ last.err = ErrNoFields
    /\ ~SuppliesSome(req)
    /\ subscriptions # << >>
    /\ req.id \notin DOMAIN subscriptions

\* C12: an UpdateSub of a stored row with valid fields succeeds, and for the
\* end date: not supplied, the stored end date stays as it was; supplied as
\* "", the row has no end date and GetSub shows ""; supplied as a valid
\* MM-YYYY, GetSub shows that text.
C12_EndDateThreeCases ==
    [][ (Runs("UpdateSub") /\ SuppliesSome(req) /\ SuppliedValid(req)
         /\ req.id \in DOMAIN subscriptions)
        => /\ last'.err = OK
           /\ LET before == GetSub(subscriptions, req.id).sub[1]
                  after  == GetSub(subscriptions', req.id).sub[1]
              IN  CASE req.endDate = Nil ->
                         /\ subscriptions'[req.id].end_date = subscriptions[req.id].end_date
                         /\ after.EndDate = before.EndDate
                    [] req.endDate = Some(EmptyText) ->
                         /\ subscriptions'[req.id].end_date = Nil
                         /\ after.EndDate = EmptyText
                    [] OTHER ->
                         /\ subscriptions'[req.id].end_date # Nil
                         /\ after.EndDate = req.endDate[1] ]_vars

\* C12 witness: an update that supplied only the end date, as "", went
\* through on a stored row, which now has no end date.
C12_Witness ==
    /\ pc = "done" /\ last.op = "UpdateSub" /\ last.err = OK
    /\ req.endDate = Some(EmptyText)
    /\ req.serviceName = Nil /\ req.price = Nil /\ req.userId = Nil /\ req.startDate = Nil
    /\ req.id \in DOMAIN subscriptions
    /\ GetSub(subscriptions, req.id).sub[1].EndDate = EmptyText

----------------------------------------------------------------------------
(* What every stored row satisfies *)

\* C13: in every state that calls of CreateSub, UpdateSub and DeleteSub
\* lead to, every stored row has price >= 0.
C13_PriceNonNegative ==
    \A i \in DOMAIN subscriptions : subscriptions[i].price >= 0

\* C13 witness: an update has set the price of a row that was created with
\* another price, next to a second row.
C13_Witness ==
    /\ pc = "done" /\ last.op = "UpdateSub" /\ last.err = OK
    /\ req.price = Some(0)
    /\ req.id \in DOMAIN subscriptions
    /\ subscriptions[req.id].price = 0
    /\ \E j \in DOMAIN subscriptions : subscriptions[j].price = 7

\* the start date of a row is a month of a year
StartDateValid(row) ==
    /\ row.start_date.m \in 1..12
    /\ row.start_date.y \in 0..9999

\* the text MM-YYYY that GetSub shows for the start date parses back to it
StartDateShown(row) ==
    ParseMonthYear(FormatMonthYear(row.start_date)) = [ok |-> TRUE, t |-> row.start_date]

\* C14: after every step every stored row has a valid start date, and a row
\* that the step wrote shows it as a text that parses; CreateSub with an
\* empty or malformed startDate, and UpdateSub with a supplied startDate
\* that is empty or malformed, fail with a validation error and leave the
\* table as it was.
C14_StartDateAlwaysValid ==
    [][ /\ \A i \in DOMAIN subscriptions' :
              /\ StartDateValid(subscriptions'[i])
              /\ (i \notin DOMAIN subscriptions \/ subscriptions'[i] # subscriptions[i])
                 => StartDateShown(subscriptions'[i])
        /\ (\/ Runs("CreateSub") /\ ~WellFormed(req.startDate)
            \/ Runs("UpdateSub") /\ req.startDate # Nil /\ ~WellFormed(req.startDate[1]))
           => /\ last'.err \in ValidationErrors
              /\ subscriptions' = subscriptions
              /\ seq' = seq ]_vars

\* C14 witness: an update of a stored row supplied "" as the start date and
\* was refused; the row still has its start date.
C14_Witness ==
    /\ pc = "done" /\ last.op = "UpdateSub" /\ last.err = ErrStartEmpty
    /\ req.startDate = Some(EmptyText)
    /\ req.id \in DOMAIN subscriptions
    /\ StartDateValid(subscriptions[req.id])

\* C15: in every state that create and update requests to the service lead
\* to, every stored row has a non-empty service name and a non-empty user id.
C15_NamesNonEmpty ==
    \A i \in DOMAIN subscriptions :
        subscriptions[i].service_name # "" /\ subscriptions[i].user_id # ""

----------------------------------------------------------------------------
(* Validation errors at the handlers *)

\* C16: when the repository call of a create, update or total-cost request
\* returns a validation error, the response has a client-error status
\* (4xx) and never a 5xx.
C16_ValidationIsClientError ==
    (/\ pc = "done"
     /\ last.op \in {"CreateSub", "UpdateSub", "GetTotalCost"}
     /\ last.err \in ValidationErrors)
    => (resp.status >= 400 /\ resp.status < 500)

----------------------------------------------------------------------------
(* Date texts *)

\* C17: a text is parsed without error exactly when it has the form MM-YYYY
\* (two digits 01..12, "-", four digits); formatting the date parsed from
\* such a text gives the same text again.
C17_ParseFormatRoundTrip ==
    /\ (pc = "done" /\ last.op = "time.Parse")
       => (last.err = OK <=> WellFormed(req.value))
    /\ (pc = "formatted" /\ last.op = "Format")
       => (WellFormed(req.value) /\ last.out = req.value)

\* C17 witness: the text 11-1003 was parsed and formatted.
C17_Witness ==
    /\ pc = "formatted" /\ last.op = "Format"
    /\ req.value = <<"1","1","-","1","0","0","3">>
    /\ last.out = req.value

----------------------------------------------------------------------------
(* GetSubsList *)

\* C18: GetSubsList returns no error and a sequence that holds every stored
\* row exactly once, as GetSub shows it, in strictly ascending order of id;
\* the sequence is empty when the table is.
C18_ListAllAscending ==
    (pc = "done" /\ last.op = "GetSubsList")
    => /\ last.err = OK
       /\ Len(last.out) = Cardinality(DOMAIN subscriptions)
       /\ \A i \in DOMAIN subscriptions :
             /\ \E k \in 1..Len(last.out) : last.out[k] = GetSub(subscriptions, i).sub[1]
             /\ Cardinality({k \in 1..Len(last.out) : last.out[k].ID = i}) = 1
       /\ \A k \in 1..Len(last.out) : last.out[k].ID \in DOMAIN subscriptions
       /\ \A k \in 1..(Len(last.out) - 1) : last.out[k].ID < last.out[k + 1].ID
       /\ subscriptions = << >> => last.out = << >>

\* C18 witness: a list of two rows.
C18_Witness ==
    /\ pc = "done" /\ last.op = "GetSubsList" /\ last.err = OK
    /\ Len(last.out) = 2
    /\ last.out[1].ID = 1 /\ last.out[2].ID = 2

----------------------------------------------------------------------------
(* Validation comes before the statement *)

\* C19: CreateSub or UpdateSub with a supplied field that is not valid (a
\* negative price, an empty or malformed startDate, a malformed endDate)
\* fails with a validation error without a statement having changed the
\* table or taken an id: the valid fields of the same call are not written.
C19_ValidationAllOrNothing ==
    [][ (\/ Runs("CreateSub") /\ ~ValidCreate(req)
         \/ Runs("UpdateSub") /\ ~SuppliedValid(req))
        => /\ last'.err \in ValidationErrors
           /\ last'.err # ErrNoFields
           /\ subscriptions' = subscriptions
           /\ seq' = seq ]_vars

\* C19 witness: an update of a stored row supplied a new service name and a
\* malformed end date; it was refused and the row has its old service name.
C19_Witness ==
    /\ pc = "done" /\ last.op = "UpdateSub" /\ last.err = ErrInvalidEnd
    /\ req.id \in DOMAIN subscriptions
    /\ req.serviceName # Nil
    /\ subscriptions[req.id].service_name # req.serviceName[1]

----------------------------------------------------------------------------
(* Calls that run together *)

\* one of the two calls is an UpdateSub and the other a DeleteSub of the same id
UpdateMeetsDelete ==
    \E u, d \in Clients :
        /\ req[u].op = "UpdateSub" /\ req[d].op = "DeleteSub"
        /\ req[u].id = req[d].id

\* C20: an UpdateSub and a DeleteSub of the same id, which holds a row, run
\* together.  Whatever the order of their statements, no step creates a row
\* or changes or removes a row with another id, and once both calls have
\* returned, no row has the id.
C20_UpdateDeleteRace ==
    [][ UpdateMeetsDelete
        => /\ DOMAIN subscriptions' \subseteq DOMAIN subscriptions
           /\ \A i \in DOMAIN subscriptions :
                 i # req["a"].id => /\ i \in DOMAIN subscriptions'
                                    /\ subscriptions'[i] = subscriptions[i]
           /\ (\A c \in Clients : pc'[c] = "done")
              => req["a"].id \notin DOMAIN subscriptions' ]_vars

\* C20 witness: both calls have returned without error (the update passed
\* its checks and ran its statement, the delete found the row); the row is
\* gone and the rows with the other ids are there.
C20_Witness ==
    /\ UpdateMeetsDelete
    /\ \A c \in Clients : pc[c] = "done" /\ last[c].err = OK
    /\ DOMAIN subscriptions = Ids \ {req["a"].id}

\* the argument of UpdateSub that assigns a column
FieldOf ==
    [service_name |-> "serviceName", price |-> "price", user_id |-> "userId",
     start_date |-> "startDate", end_date |-> "endDate"]

\* both calls are UpdateSub of the same id and no field is supplied by both
TwoUpdatesDisjoint ==
    /\ \A c \in Clients : req[c].op = "UpdateSub"
    /\ req["a"].id = req["b"].id
    /\ \A col \in DOMAIN FieldOf :
          req["a"][FieldOf[col]] = Nil \/ req["b"][FieldOf[col]] = Nil

\* the entity shows every value that the request supplied
Carries(sub, r) ==
    /\ r.serviceName # Nil => sub.ServiceName = r.serviceName[1]
    /\ r.price # Nil => sub.Price = r.price[1]
    /\ r.userId # Nil => sub.UserID = r.userId[1]
    /\ r.startDate # Nil => sub.StartDate = r.startDate[1]
    /\ r.endDate # Nil => sub.EndDate = r.endDate[1]

\* C21: two UpdateSub calls of the same id that supply disjoint fields run
\* together.  The statement of each changes no column that its call did not
\* supply, and once both have returned without error the row shows the
\* values of both calls, whatever the order of the statements.
C21_NoLostUpdate ==
    [][ TwoUpdatesDisjoint
        => /\ \A c \in Clients :
                 (pc[c] = "built" /\ pc'[c] = "done")
                 => \A col \in DOMAIN FieldOf :
                       req[c][FieldOf[col]] = Nil
                       => subscriptions'[req[c].id][col] = subscriptions[req[c].id][col]
           /\ (\A c \in Clients : pc'[c] = "done" /\ last'[c].err = OK)
              => \A c \in Clients :
                    Carries(GetSub(subscriptions', req[c].id).sub[1], req[c]) ]_vars

\* C21 witness: one call supplied the service name and the end date, the
\* other the price and the user id; both have returned without error and
\* the row shows all four values.
C21_Witness ==
    /\ TwoUpdatesDisjoint
    /\ \A c \in Clients : pc[c] = "done" /\ last[c].err = OK
    /\ req["a"].serviceName # Nil /\ req["a"].endDate # Nil
    /\ req["a"].price = Nil /\ req["a"].userId = Nil /\ req["a"].startDate = Nil
    /\ req["b"].price # Nil /\ req["b"].userId # Nil
    /\ req["b"].serviceName = Nil /\ req["b"].endDate = Nil /\ req["b"].startDate = Nil
    /\ LET sub == GetSub(subscriptions, req["a"].id).sub[1]
       IN  /\ sub.ServiceName = req["a"].serviceName[1]
           /\ sub.EndDate = req["a"].endDate[1]
           /\ sub.Price = req["b"].price[1]
           /\ sub.UserID = req["b"].userId[1]

----------------------------------------------------------------------------
(* GetTotalCost: sign and filters *)

\* the requests that supply one more filter than r, with a valid value
OneMoreFilter(r) ==
    {[r EXCEPT !.userId = Some(u)] : u \in IF r.userId = Nil THEN Users ELSE {}}
    \cup {[r EXCEPT !.serviceName = Some(n)] :
             n \in IF r.serviceName = Nil THEN Names ELSE {}}
    \cup {[r EXCEPT !.startDate = Some(d)] :
             d \in IF r.startDate = Nil THEN ValidDateTexts ELSE {}}
    \cup {[r EXCEPT !.endDate = Some(d)] :
             d \in IF r.endDate = Nil THEN ValidDateTexts ELSE {}}

\* C22: a total that GetTotalCost returns is never negative, whatever the
\* filters, and on the same table the call with one more filter (user id,
\* service name, start or end of the period) returns no larger a total.
C22_TotalNonNegativeMonotone ==
    (TotalDone /\ last.err = OK)
    => /\ last.out >= 0
       /\ \A s \in OneMoreFilter(req) :
             LET more == GetTotalCost(subscriptions, s.userId, s.serviceName,
                                      s.startDate, s.endDate)
             IN  /\ more.err = OK
                 /\ more.total >= 0
                 /\ more.total <= last.out

\* C22 witness: with the end of the period as the only filter the total of
\* the two stored rows is 14; with the start of the period as well, one of
\* them drops out and the total is 7.
C22_Witness ==
    /\ TotalDone /\ last.err = OK /\ last.out = 14
    /\ req.userId = Nil /\ req.serviceName = Nil
    /\ req.startDate = Nil /\ req.endDate = Some(D_01_2024)
    /\ Cardinality(DOMAIN subscriptions) = 2
    /\ GetTotalCost(subscriptions, Nil, Nil, Some(D_01_2024), Some(D_01_2024)).total = 7

====
